---- MODULE Spec2Model ----
(***************************************************************************)
(* A model of the two NodeFlow instance classes of the repository:         *)
(*   - "app": class NodeFlow and function create of                        *)
(*     src/examples/bun-react/src/app.tsx (Map of Sets registry, init,     *)
(*     change, emit, on, off);                                             *)
(*   - "lib": class NodeFlow and function createNodeFlow of                *)
(*     src/nodeflow.ts (record of arrays registry, emit, on, off).         *)
(* JavaScript runs these synchronously on one thread, but listeners and    *)
(* callbacks re-enter the instance, so the model keeps an explicit call    *)
(* stack: one frame per running change(), emit() and user function.        *)
(***************************************************************************)
EXTENDS Integers, Sequences, FiniteSets, TLC

\* Bound: the number of calls user code makes on the instance in one run.
MaxOps == 4

\* The listener functions user code can register.
Handlers == {"h1", "h2"}
\* The two instance-level events change() fires (app.tsx:11, 32, 34).
ChangeEvents == {"beforeChange", "change"}
\* Plugin-declared events, fired explicitly through emit.
BusEvents == {"ev"}
\* The events of the core api of createNodeFlow (nodeflow.ts:209, 215).
CoreEvents == {"node:added", "edge:added"}

VARIABLES
  impl,        \* "app" or "lib": the class the instance is built from
  state,       \* instance.state
  changing,    \* app.tsx:17
  listeners,   \* the registry: event -> the listeners, in insertion order
  stack,       \* the call stack, innermost frame last
  ops,         \* calls made by user code so far
  unsubs,      \* the unsubscribe closures on() has returned
  last,        \* the most recent call of user code and what it returned
  offed,       \* <<event, handler>> removed by off and not registered since
  tx,          \* what happened in the current outermost change()
  book,        \* per <<event, handler>>: the on calls not yet matched by an off, and
               \* the call that registered the listener
  skipped,     \* the listeners an exception kept the emits it crossed from calling
  plugins,     \* the plugin list given to create / createNodeFlow
  autoInit,    \* the autoInit option of create
  api,         \* instance.api: method name -> the plugin whose closure it is
  inits,       \* the init thunks create has collected (app.tsx:69)
  initFn,      \* instance._init: "default" (app.tsx:15) or "composed" (app.tsx:76)
  initialized, \* app.tsx:16
  held,        \* the teardown function the caller holds, as its cleanups in call order
  cx           \* what happened to the instance's construction and lifecycle

bus == <<changing, listeners, unsubs, last, offed, tx, book, skipped>>
life == <<plugins, autoInit, api, inits, initFn, initialized, held, cx>>
vars == <<impl, state, changing, listeners, stack, ops, unsubs, last, offed, tx,
          book, skipped, plugins, autoInit, api, inits, initFn, initialized, held, cx>>

-----------------------------------------------------------------------------
\* Helpers on sequences and on registries (functions over the present keys).

Has(s, h) == \E k \in 1..Len(s) : s[k] = h
IndexOf(s, h) == IF Has(s, h) THEN CHOOSE k \in 1..Len(s) : s[k] = h /\ \A j \in 1..(k-1) : s[j] # h ELSE 0
Without(s, h) == SelectSeq(s, LAMBDA x : x # h)
DropKey(reg, t) == IF DOMAIN reg \ {t} = {} THEN <<>> ELSE [k \in DOMAIN reg \ {t} |-> reg[k]]
PutKey(reg, t, v) == [k \in DOMAIN reg \cup {t} |-> IF k = t THEN v ELSE reg[k]]
Registered(reg, t, h) == t \in DOMAIN reg /\ Has(reg[t], h)

NoData == [count |-> -1]
Top == stack[Len(stack)]
Pop(stk) == SubSeq(stk, 1, Len(stk) - 1)
Frames == {stack[k] : k \in 1..Len(stack)}
IsListener(f, t) == f.kind = "fn" /\ f.role = "listener" /\ f.type = t
MapFrames(stk, F(_)) == IF Len(stk) = 0 THEN <<>> ELSE [k \in 1..Len(stk) |-> F(stk[k])]

\* One shape for every frame, so that frames compare.
BlankFrame ==
  [kind |-> "none", todo |-> <<>>, outer |-> FALSE, type |-> "none", data |-> NoData,
   i |-> 0, attached |-> FALSE, snap |-> <<>>, banned |-> {}, role |-> "none",
   handler |-> "none", first |-> {}, gone |-> {}, seen |-> <<>>]

-----------------------------------------------------------------------------
\* The listener registry of app.tsx: Map<event, Set<handler>>.

\* A mutant of AppOn: a new listener is put before the others.
AppOnPrepends(reg, t, h) ==
  LET s == IF t \in DOMAIN reg THEN reg[t] ELSE <<>>
  IN PutKey(reg, t, IF Has(s, h) THEN s ELSE <<h>> \o s)

\* on, app.tsx:47-49. Set.add keeps the place of a value already in the set.
AppOn(reg, t, h) ==
  LET s == IF t \in DOMAIN reg THEN reg[t] ELSE <<>>
  IN PutKey(reg, t, IF Has(s, h) THEN s ELSE Append(s, h))

\* A mutant of AppOff: the handler stays in the set.
AppOffKeeps(reg, t, h) == reg

\* off, app.tsx:54-60.
AppOff(reg, t, h) ==
  IF t \notin DOMAIN reg THEN reg
  ELSE LET s == Without(reg[t], h)
       IN IF Len(s) = 0 THEN DropKey(reg, t) ELSE PutKey(reg, t, s)

\* What Set.prototype.delete does to the forEach calls running over the same
\* Set (app.tsx:42): a value deleted before it is visited is not visited. When
\* off drops the event's key (app.tsx:58) the running forEach keeps the old,
\* now empty, Set, which nothing can add to any more.
AppOffIter(stk, reg, t, h) ==
  LET Moved(f) ==
        IF f.kind = "emit" /\ f.attached /\ f.type = t /\ Registered(reg, t, h)
        THEN IF t \notin DOMAIN AppOff(reg, t, h) THEN [f EXCEPT !.attached = FALSE]
             ELSE IF IndexOf(reg[t], h) < f.i THEN [f EXCEPT !.i = @ - 1]
             ELSE f
        ELSE f
  IN MapFrames(stk, Moved)

\* The listener registry of nodeflow.ts: { [event]: handler[] }.

\* on, nodeflow.ts:170.
LibOn(reg, t, h) == PutKey(reg, t, Append(IF t \in DOMAIN reg THEN reg[t] ELSE <<>>, h))

\* off, nodeflow.ts:177-178: filter builds a new array without the listener.
LibOff(reg, t, h) == IF t \notin DOMAIN reg THEN reg ELSE PutKey(reg, t, Without(reg[t], h))

RegOn(reg, t, h) == IF impl = "app" THEN AppOn(reg, t, h) ELSE LibOn(reg, t, h)
RegOff(reg, t, h) == IF impl = "app" THEN AppOff(reg, t, h) ELSE LibOff(reg, t, h)
StackOff(stk, reg, t, h) == IF impl = "app" THEN AppOffIter(stk, reg, t, h) ELSE stk

\* What on returns: app.tsx:50 returns the closure () => this.off(type, handler);
\* nodeflow.ts:166-171 returns nothing.
OnReturns == IF impl = "app" THEN "unsubscribe" ELSE "undefined"

\* A mutant of UnsubReg: the closure drops every listener of the event.
UnsubDropsEvent(reg, t, h) == DropKey(reg, t)

\* The closure app.tsx:50 returns, invoked: it calls off with the pair it closed over.
UnsubReg(reg, t, h) == AppOff(reg, t, h)
UnsubStack(stk, reg, t, h) == AppOffIter(stk, reg, t, h)

\* History kept in the frames of the running emits of event t: the listeners
\* removed since the emit began and not registered again.
MarkGone(stk, reg, t, h) ==
  LET Marked(f) == IF f.kind = "emit" /\ f.type = t /\ Registered(reg, t, h)
                   THEN [f EXCEPT !.gone = @ \cup {h}] ELSE f
  IN MapFrames(stk, Marked)

MarkBack(stk, t, h) ==
  LET Marked(f) == IF f.kind = "emit" /\ f.type = t
                   THEN [f EXCEPT !.banned = @ \ {h}, !.gone = @ \ {h}] ELSE f
  IN MapFrames(stk, Marked)

\* History of the calls of on and off: owed counts the on calls of the pair not
\* yet matched by an off, born is the call that registered the listener.
NoBook == [p \in (ChangeEvents \cup BusEvents \cup CoreEvents) \X Handlers |-> [owed |-> 0, born |-> 0]]
BookOn(bk, reg, t, h, now) ==
  [bk EXCEPT ![<<t, h>>] = [owed |-> @.owed + 1,
                            born |-> IF Registered(reg, t, h) THEN @.born ELSE now]]
BookOff(bk, t, h) ==
  [bk EXCEPT ![<<t, h>>].owed = IF @ > 0 THEN @ - 1 ELSE 0]

-----------------------------------------------------------------------------
\* emit, app.tsx:39-44 and nodeflow.ts:181-183.

\* The frame of a call emit(t, d). app.tsx:40 reads the Set once; forEach then
\* walks that Set as it changes. nodeflow.ts:182 walks the array it read, over
\* the length it had at the start.
EmitFrame(t, d) ==
  [BlankFrame EXCEPT !.kind = "emit", !.type = t, !.data = d, !.i = 1,
     !.attached = (impl = "app" /\ t \in DOMAIN listeners),
     !.snap = IF impl = "lib" /\ t \in DOMAIN listeners THEN listeners[t] ELSE <<>>,
     !.banned = {h \in Handlers : <<t, h>> \in offed},
     !.first = {h \in Handlers : Registered(listeners, t, h)}]

Pending(f) ==
  IF impl = "app" THEN f.attached /\ f.i <= Len(listeners[f.type])
  ELSE f.i <= Len(f.snap)

NextHandler(f) == IF impl = "app" THEN listeners[f.type][f.i] ELSE f.snap[f.i]

\* The listeners forEach has yet to call.
Unvisited(f) ==
  IF impl = "app"
  THEN IF f.attached THEN {listeners[f.type][k] : k \in f.i..Len(listeners[f.type])} ELSE {}
  ELSE {f.snap[k] : k \in f.i..Len(f.snap)}

FnFrame(role, outer, t, d, h) ==
  [BlankFrame EXCEPT !.kind = "fn", !.role = role, !.outer = outer, !.type = t,
     !.data = d, !.handler = h]

\* forEach calls the next listener with the payload.
EmitNext ==
  /\ Len(stack) > 0 /\ Top.kind = "emit" /\ Pending(Top)
  /\ stack' = Append([stack EXCEPT ![Len(stack)].i = @ + 1,
                                     ![Len(stack)].seen =
                                        Append(@, [handler |-> NextHandler(Top),
                                                   born |-> book[<<Top.type, NextHandler(Top)>>].born,
                                                   removed |-> NextHandler(Top) \in Top.gone])],
                     FnFrame("listener", FALSE, Top.type, Top.data, NextHandler(Top)))
  /\ tx' = IF Top.type = "beforeChange" THEN [tx EXCEPT !.lb = @ + 1]
           ELSE IF Top.type = "change" THEN [tx EXCEPT !.lc = @ + 1]
           ELSE tx
  /\ UNCHANGED <<impl, state, changing, listeners, ops, unsubs, last, offed, book, skipped, life>>

\* forEach is over: emit returns.
EmitReturn ==
  /\ Len(stack) > 0 /\ Top.kind = "emit" /\ ~Pending(Top)
  /\ stack' = Pop(stack)
  /\ UNCHANGED <<impl, state, changing, listeners, ops, unsubs, last, offed, tx, book, skipped, life>>

-----------------------------------------------------------------------------
\* change, app.tsx:27-37, as the statements one call runs, in order.

\* A mutant of ChangePlan: a nested call fires the events too.
ChangePlanNestedEmits(isChanging) ==
  IF isChanging THEN <<"emit_before", "callback", "emit_change">>
  ELSE <<"lock", "emit_before", "callback", "emit_change", "release">>

\* A mutant of ChangePlan: the change event is fired before the callback runs.
ChangePlanEmitsEarly(isChanging) ==
  IF isChanging THEN <<"callback">>
  ELSE <<"lock", "emit_before", "emit_change", "callback", "release">>

ChangePlan(isChanging) ==
  IF isChanging THEN <<"callback">>
  ELSE <<"lock", "emit_before", "callback", "emit_change", "release">>

NewTx(s) ==
  [active |-> TRUE, returned |-> FALSE, threw |-> FALSE, nb |-> 0, nc |-> 0, nn |-> 0,
   deep |-> 0, lb |-> 0, lc |-> 0, mb |-> 0, mc |-> 0, cbStarted |-> FALSE, cbDone |-> FALSE, preReplaced |-> FALSE,
   entry |-> s, bp |-> NoData, s0 |-> NoData, s1 |-> NoData, cp |-> NoData]

NoTx == [NewTx(NoData) EXCEPT !.active = FALSE]

\* The change() calls running inside the outermost one.
NestedDepth(stk) == Cardinality({k \in 1..Len(stk) : stk[k].kind = "change" /\ ~stk[k].outer})
Max2(a, b) == IF a >= b THEN a ELSE b

\* A mutant of PayloadAt: the events carry the state change() was called with.
PayloadFrozen(live, atCall) == atCall

\* The payload of beforeChange and change, app.tsx:32 and 34: this.state as
\* it is when the event is fired.
PayloadAt(live, atCall) == live

\* User code runs at the top level and inside callbacks and listeners.
CanCall == ops < MaxOps /\ (IF Len(stack) = 0 THEN TRUE ELSE Top.kind = "fn")

Called(op, t, h, r) ==
  [op |-> op, type |-> t, handler |-> h, ret |-> r, was |-> Registered(listeners, t, h)]

\* instance.change(callback) is called: app.tsx:28 reads the flag.
Change ==
  /\ CanCall /\ impl = "app"
  /\ stack' = Append(stack, [BlankFrame EXCEPT !.kind = "change",
                               !.todo = ChangePlan(changing), !.outer = ~changing])
  /\ tx' = IF ~changing THEN NewTx(state)
           ELSE [tx EXCEPT !.nn = @ + 1, !.deep = Max2(@, NestedDepth(stack) + 1)]
  /\ ops' = ops + 1
  /\ last' = Called("change", "none", "none", "undefined")
  /\ UNCHANGED <<impl, state, changing, listeners, unsubs, offed, book, skipped, life>>

ChangeAt(step) == Len(stack) > 0 /\ Top.kind = "change" /\ Top.todo # <<>> /\ Head(Top.todo) = step
Advance(stk) == [stk EXCEPT ![Len(stk)].todo = Tail(@)]

\* app.tsx:31
ChangeLock ==
  /\ ChangeAt("lock")
  /\ changing' = TRUE
  /\ stack' = Advance(stack)
  /\ UNCHANGED <<impl, state, listeners, ops, unsubs, last, offed, tx, book, skipped, life>>

\* app.tsx:32
ChangeEmitBefore ==
  /\ ChangeAt("emit_before")
  /\ stack' = Append(Advance(stack), EmitFrame("beforeChange", PayloadAt(state, tx.entry)))
  /\ tx' = [tx EXCEPT !.nb = @ + 1, !.bp = PayloadAt(state, tx.entry)]
  /\ UNCHANGED <<impl, state, changing, listeners, ops, unsubs, last, offed, book, skipped, life>>

\* app.tsx:29 and app.tsx:33
ChangeCallback ==
  /\ ChangeAt("callback")
  /\ stack' = Append([Advance(stack) EXCEPT ![Len(stack)].i = @ + 1],
                     FnFrame("callback", Top.outer, "none", NoData, "none"))
  /\ tx' = IF Top.outer THEN [tx EXCEPT !.cbStarted = TRUE, !.s0 = state] ELSE tx
  /\ UNCHANGED <<impl, state, changing, listeners, ops, unsubs, last, offed, book, skipped, life>>

\* app.tsx:34
ChangeEmitChange ==
  /\ ChangeAt("emit_change")
  /\ stack' = Append(Advance(stack), EmitFrame("change", PayloadAt(state, tx.entry)))
  /\ tx' = [tx EXCEPT !.nc = @ + 1, !.cp = PayloadAt(state, tx.entry)]
  /\ UNCHANGED <<impl, state, changing, listeners, ops, unsubs, last, offed, book, skipped, life>>

\* app.tsx:35
ChangeRelease ==
  /\ ChangeAt("release")
  /\ changing' = FALSE
  /\ stack' = Advance(stack)
  /\ UNCHANGED <<impl, state, listeners, ops, unsubs, last, offed, tx, book, skipped, life>>

\* app.tsx:37: change returns to its caller.
ChangeReturn ==
  /\ Len(stack) > 0 /\ Top.kind = "change" /\ Top.todo = <<>>
  /\ stack' = Pop(stack)
  /\ tx' = IF Top.outer THEN [tx EXCEPT !.returned = TRUE] ELSE tx
  /\ UNCHANGED <<impl, state, changing, listeners, ops, unsubs, last, offed, book, skipped, life>>

-----------------------------------------------------------------------------
\* User code: the caller at the top level, the callbacks given to change and
\* the listeners. It calls the instance, returns or throws.

\* instance.on(t, h)
On(t, h) ==
  /\ CanCall
  /\ listeners' = RegOn(listeners, t, h)
  /\ unsubs' = IF OnReturns = "unsubscribe" THEN unsubs \cup {<<t, h>>} ELSE unsubs
  /\ offed' = offed \ {<<t, h>>}
  /\ stack' = MarkBack(stack, t, h)
  /\ book' = BookOn(book, listeners, t, h, ops + 1)
  /\ ops' = ops + 1
  /\ last' = Called("on", t, h, OnReturns)
  /\ UNCHANGED <<impl, state, changing, tx, skipped, life>>

\* instance.off(t, h)
Off(t, h) ==
  /\ CanCall
  /\ listeners' = RegOff(listeners, t, h)
  /\ stack' = MarkGone(StackOff(stack, listeners, t, h), listeners, t, h)
  /\ book' = BookOff(book, t, h)
  /\ offed' = offed \cup {<<t, h>>}
  /\ ops' = ops + 1
  /\ last' = Called("off", t, h, "undefined")
  /\ UNCHANGED <<impl, state, changing, unsubs, tx, skipped, life>>

\* A closure returned by on is invoked.
Unsubscribe(t, h) ==
  /\ CanCall /\ <<t, h>> \in unsubs
  /\ listeners' = UnsubReg(listeners, t, h)
  /\ stack' = MarkGone(UnsubStack(stack, listeners, t, h), listeners, t, h)
  /\ book' = BookOff(book, t, h)
  /\ offed' = offed \cup {<<t, h>>}
  /\ ops' = ops + 1
  /\ last' = Called("unsub", t, h, "undefined")
  /\ UNCHANGED <<impl, state, changing, unsubs, tx, skipped, life>>

\* instance.emit(t, payload) for a plugin event.
Emit(t) ==
  /\ CanCall
  /\ stack' = Append(stack, EmitFrame(t, state))
  /\ ops' = ops + 1
  /\ last' = Called("emit", t, "none", "undefined")
  /\ UNCHANGED <<impl, state, changing, listeners, unsubs, offed, tx, book, skipped, life>>

\* The callback of a change() replaces instance.state by a new object, as
\* app.tsx:114-120 does. Writes outside a change callback are against the
\* instance's convention and are not taken. A write into the same object
\* leaves every payload the object it was and is not modelled.
Mutate ==
  /\ CanCall /\ Len(stack) > 0 /\ Top.role = "callback"
  /\ state' = [state EXCEPT !.count = @ + 1]
  /\ tx' = [tx EXCEPT !.preReplaced = @ \/ (tx.active /\ ~tx.cbStarted),
                      !.mb = IF \E f \in Frames : IsListener(f, "beforeChange") THEN @ + 1 ELSE @,
                      !.mc = IF \E f \in Frames : IsListener(f, "change") THEN @ + 1 ELSE @]
  /\ ops' = ops + 1
  /\ UNCHANGED <<impl, changing, listeners, stack, unsubs, last, offed, book, skipped, life>>

\* A callback or listener returns.
FnReturn ==
  /\ Len(stack) > 0 /\ Top.kind = "fn"
  /\ stack' = Pop(stack)
  /\ tx' = IF Top.role = "callback" /\ Top.outer
           THEN [tx EXCEPT !.cbDone = TRUE, !.s1 = state] ELSE tx
  /\ UNCHANGED <<impl, state, changing, listeners, ops, unsubs, last, offed, book, skipped, life>>

\* A callback or listener throws. Nothing in either class catches: the
\* exception leaves every running emit and change and reaches the top level.
FnThrow ==
  /\ Len(stack) > 0 /\ Top.kind = "fn"
  /\ stack' = <<>>
  /\ tx' = IF Top.role = "callback" /\ Top.outer THEN [tx EXCEPT !.threw = TRUE] ELSE tx
  /\ skipped' = UNION {{<<f.type, h>> : h \in Unvisited(f)} : f \in {g \in Frames : g.kind = "emit"}}
  /\ UNCHANGED <<impl, state, changing, listeners, ops, unsubs, last, offed, book, life>>

-----------------------------------------------------------------------------
\* Plugins. A plugin contributes a state fragment, api methods and (app.tsx)
\* an init thunk that returns a cleanup. "boom" is a plugin whose descriptor
\* (app.tsx:71) or api factory (nodeflow.ts:162) throws.

Pool ==
  [ first   |-> [state |-> [x |-> 1],           api |-> {"addNode"},           throws |-> FALSE],
    second  |-> [state |-> [x |-> 2, y |-> 3],  api |-> {"addNode", "layout"}, throws |-> FALSE],
    graph   |-> [state |-> [nodes |-> <<9>>],   api |-> {"addEdge"},           throws |-> FALSE],
    bare    |-> [state |-> <<>>,                api |-> {},                    throws |-> FALSE],
    boom    |-> [state |-> [y |-> 5],           api |-> {"layout"},            throws |-> TRUE],
    counter |-> [state |-> [count |-> 0],       api |-> {},                    throws |-> FALSE] ]

\* Bound: the length of the plugin list.
MaxPlugins == 3

ListedPlugins == {"first", "second", "graph", "bare", "boom"}
PluginLists == UNION {[1..n -> ListedPlugins] : n \in 0..MaxPlugins}
StateKeys == {"x", "y", "nodes", "edges", "count"}
ApiNames == {"addNode", "addEdge", "layout"}

\* The implementation owning an api method: the place in the list of the plugin
\* whose invocation made the closure, 0 for the core api of createNodeFlow.
Core == 0

Reverse(s) == IF Len(s) = 0 THEN <<>> ELSE [k \in 1..Len(s) |-> s[Len(s) + 1 - k]]

\* A mutant of ObjectAssign: a key the target already has is kept.
ObjectAssignKeeps(target, source) ==
  IF DOMAIN target \cup DOMAIN source = {} THEN <<>>
  ELSE [k \in DOMAIN target \cup DOMAIN source |->
          IF k \in DOMAIN target THEN target[k] ELSE source[k]]

\* Object.assign(target, source) and the spread {...target, ...source}.
ObjectAssign(target, source) ==
  IF DOMAIN target \cup DOMAIN source = {} THEN <<>>
  ELSE [k \in DOMAIN target \cup DOMAIN source |->
          IF k \in DOMAIN source THEN source[k] ELSE target[k]]

\* What the k-th plugin of the list contributes.
StateOf(ps, k) == Pool[ps[k]].state
ApiOf(ps, k) == IF Pool[ps[k]].api = {} THEN <<>> ELSE [m \in Pool[ps[k]].api |-> k]
Throws(ps, k) == Pool[ps[k]].throws

\* createNodeFlow, nodeflow.ts:197-200 and 204-217. An empty object is <<>>.
CoreState == [nodes |-> <<>>, edges |-> <<>>]
CoreApi == [addNode |-> Core, addEdge |-> Core]

\* nodeflow.ts:219-222: plugins.reduce((acc, plugin) => ({...acc, ...plugin.state}), {})
RECURSIVE LibPluginState(_, _)
LibPluginState(ps, n) ==
  IF n = 0 THEN <<>> ELSE ObjectAssign(LibPluginState(ps, n - 1), StateOf(ps, n))

\* nodeflow.ts:223
LibInitialState(ps) == ObjectAssign(CoreState, LibPluginState(ps, Len(ps)))

\* nodeflow.ts:225-228 and 162-163: the core factory first, then the plugins'
\* factories that exist, each called once, the results assigned in order.
RECURSIVE LibAssignApis(_, _)
LibAssignApis(ps, n) ==
  IF n = 0 THEN ObjectAssign(<<>>, CoreApi)
  ELSE ObjectAssign(LibAssignApis(ps, n - 1), ApiOf(ps, n))

LibThrows(ps) == \E k \in 1..Len(ps) : Pool[ps[k]].api # {} /\ Throws(ps, k)

\* create, app.tsx:70-75 run over the first n plugins of the list.
RECURSIVE AppMergedState(_, _)
AppMergedState(ps, n) ==
  IF n = 0 THEN <<>> ELSE ObjectAssign(AppMergedState(ps, n - 1), StateOf(ps, n))

RECURSIVE AppMergedApi(_, _)
AppMergedApi(ps, n) ==
  IF n = 0 THEN <<>> ELSE ObjectAssign(AppMergedApi(ps, n - 1), ApiOf(ps, n))

NewCx ==
  [created |-> FALSE, threw |-> FALSE, invoked |-> 0, initCalls |-> 0, firstInitDone |-> FALSE,
   directCalls |-> 0, holds |-> FALSE, tdCalls |-> 0, tdDone |-> FALSE,
   runs |-> [k \in 1..MaxPlugins |-> 0], log |-> <<>>]

\* A mutant of CreatePlan: create never calls init.
CreatePlanNoAutoInit == <<"compose", "install">>

\* The statements of create after the instance is allocated (app.tsx:68-69).
CreatePlan == <<"compose", "install", "auto_init">>

\* A mutant of InitPlan: the flag is never set.
InitPlanNoFlag(isInitialized) == IF isInitialized THEN <<>> ELSE <<"run_init">>

\* init, app.tsx:20-25.
InitPlan(isInitialized) == IF isInitialized THEN <<>> ELSE <<"set_flag", "run_init">>

\* A mutant of ComposedTeardown: the cleanups are kept in registration order.
ComposedTeardownInOrder(collected) == collected

\* app.tsx:77-80: the teardown the composed init returns calls the collected
\* cleanups in this order.
ComposedTeardown(collected) == Reverse(collected)

At(kind, step) == Len(stack) > 0 /\ Top.kind = kind /\ Top.todo # <<>> /\ Head(Top.todo) = step

\* A mutant of CreatePlugin: a descriptor that throws undoes the merges made.
CreatePluginRollsBack ==
  /\ At("create", "compose") /\ Top.i <= Len(plugins)
  /\ cx' = [cx EXCEPT !.invoked = @ + 1, !.threw = Throws(plugins, Top.i)]
  /\ IF Throws(plugins, Top.i)
     THEN /\ stack' = <<>>
          /\ state' = <<>>
          /\ api' = <<>>
          /\ UNCHANGED inits
     ELSE /\ state' = ObjectAssign(state, StateOf(plugins, Top.i))
          /\ api' = ObjectAssign(api, ApiOf(plugins, Top.i))
          /\ inits' = Append(inits, Top.i)
          /\ stack' = [stack EXCEPT ![Len(stack)].i = @ + 1]
  /\ UNCHANGED <<impl, ops, bus, plugins, autoInit, initFn, initialized, held>>

\* app.tsx:70-75, one turn of the loop: the descriptor is invoked with the
\* instance, its fragments are assigned, its init thunk is pushed. A descriptor
\* that throws ends create: nothing in create catches.
CreatePlugin ==
  /\ At("create", "compose") /\ Top.i <= Len(plugins)
  /\ cx' = [cx EXCEPT !.invoked = @ + 1, !.threw = Throws(plugins, Top.i)]
  /\ IF Throws(plugins, Top.i)
     THEN /\ stack' = <<>>
          /\ UNCHANGED <<state, api, inits>>
     ELSE /\ state' = ObjectAssign(state, StateOf(plugins, Top.i))
          /\ api' = ObjectAssign(api, ApiOf(plugins, Top.i))
          /\ inits' = Append(inits, Top.i)
          /\ stack' = [stack EXCEPT ![Len(stack)].i = @ + 1]
  /\ UNCHANGED <<impl, ops, bus, plugins, autoInit, initFn, initialized, held>>

\* The loop is over.
CreateComposed ==
  /\ At("create", "compose") /\ Top.i > Len(plugins)
  /\ stack' = Advance(stack)
  /\ UNCHANGED <<impl, state, ops, bus, life>>

\* app.tsx:76
CreateInstall ==
  /\ At("create", "install")
  /\ initFn' = "composed"
  /\ stack' = Advance(stack)
  /\ UNCHANGED <<impl, state, ops, bus, plugins, autoInit, api, inits, initialized, held, cx>>

InitFrame == [BlankFrame EXCEPT !.kind = "init", !.todo = InitPlan(initialized), !.outer = ~initialized]

\* app.tsx:82-84
CreateAutoInit ==
  /\ At("create", "auto_init")
  /\ stack' = IF autoInit THEN Append(Advance(stack), InitFrame) ELSE Advance(stack)
  /\ cx' = IF autoInit THEN [cx EXCEPT !.initCalls = @ + 1] ELSE cx
  /\ UNCHANGED <<impl, state, ops, bus, plugins, autoInit, api, inits, initFn, initialized, held>>

\* app.tsx:85
CreateReturn ==
  /\ Len(stack) > 0 /\ Top.kind = "create" /\ Top.todo = <<>>
  /\ stack' = Pop(stack)
  /\ cx' = [cx EXCEPT !.created = TRUE]
  /\ UNCHANGED <<impl, state, ops, bus, plugins, autoInit, api, inits, initFn, initialized, held>>

\* createNodeFlow, nodeflow.ts:190-231: no user code runs in it but the api
\* factories, so the call is one step.
LibCreate ==
  /\ At("createNodeFlow", "build")
  /\ stack' = <<>>
  /\ IF LibThrows(plugins)
     THEN /\ cx' = [cx EXCEPT !.threw = TRUE]
          /\ UNCHANGED <<state, api>>
     ELSE /\ cx' = [cx EXCEPT !.created = TRUE]
          /\ state' = LibInitialState(plugins)
          /\ api' = LibAssignApis(plugins, Len(plugins))
  /\ UNCHANGED <<impl, ops, bus, plugins, autoInit, inits, initFn, initialized, held>>

\* instance.init() is called by the holder of the instance or by an init thunk.
InitCall ==
  /\ CanCall /\ impl = "app" /\ (IF Len(stack) = 0 THEN cx.created ELSE Top.role = "thunk")
  /\ stack' = Append(stack, InitFrame)
  /\ cx' = [cx EXCEPT !.initCalls = @ + 1]
  /\ ops' = ops + 1
  /\ UNCHANGED <<impl, state, bus, plugins, autoInit, api, inits, initFn, initialized, held>>

\* app.tsx:22
InitSetFlag ==
  /\ At("init", "set_flag")
  /\ initialized' = TRUE
  /\ stack' = Advance(stack)
  /\ UNCHANGED <<impl, state, ops, bus, plugins, autoInit, api, inits, initFn, held, cx>>

\* A mutant of ComposedFrame: the thunks are called last to first.
ComposedFrameReversed(direct) ==
  [BlankFrame EXCEPT !.kind = "composed", !.i = 1, !.outer = direct,
     !.snap = IF initFn = "composed" THEN Reverse(inits) ELSE <<>>]

\* The frame of a call of instance._init: the default (app.tsx:15) runs
\* nothing, the composed one (app.tsx:77) maps over the thunks collected.
ComposedFrame(direct) ==
  [BlankFrame EXCEPT !.kind = "composed", !.i = 1, !.outer = direct,
     !.snap = IF initFn = "composed" THEN inits ELSE <<>>]

\* app.tsx:23
InitRun ==
  /\ At("init", "run_init")
  /\ stack' = Append(Advance(stack), ComposedFrame(FALSE))
  /\ UNCHANGED <<impl, state, ops, bus, life>>

\* app.tsx:25. What _init returned is dropped.
InitReturn ==
  /\ Len(stack) > 0 /\ Top.kind = "init" /\ Top.todo = <<>>
  /\ stack' = Pop(stack)
  /\ cx' = IF Top.outer THEN [cx EXCEPT !.firstInitDone = TRUE] ELSE cx
  /\ UNCHANGED <<impl, state, ops, bus, plugins, autoInit, api, inits, initFn, initialized, held>>

\* The holder of the instance calls instance._init() itself, the one way to
\* get the teardown function.
DirectInit ==
  /\ CanCall /\ impl = "app" /\ Len(stack) = 0 /\ cx.created
  /\ stack' = Append(stack, ComposedFrame(TRUE))
  /\ cx' = [cx EXCEPT !.directCalls = @ + 1]
  /\ ops' = ops + 1
  /\ UNCHANGED <<impl, state, bus, plugins, autoInit, api, inits, initFn, initialized, held>>

\* app.tsx:77, inits.map(init => init()): the next thunk is called. Its
\* cleanup is named by the plugin's place in the list.
ComposedNext ==
  /\ Len(stack) > 0 /\ Top.kind = "composed" /\ Top.i <= Len(Top.snap)
  /\ stack' = Append([stack EXCEPT ![Len(stack)].i = @ + 1],
                     FnFrame("thunk", FALSE, "none", NoData, "none"))
  /\ cx' = [cx EXCEPT !.runs[Top.snap[Top.i]] = @ + 1]
  /\ UNCHANGED <<impl, state, ops, bus, plugins, autoInit, api, inits, initFn, initialized, held>>

\* app.tsx:77-80: the cleanups are reversed and the teardown is returned. The
\* thunks are called in the order of inits, so the cleanups collected are
\* Top.snap's.
ComposedReturn ==
  /\ Len(stack) > 0 /\ Top.kind = "composed" /\ Top.i > Len(Top.snap)
  /\ stack' = Pop(stack)
  /\ held' = IF Top.outer THEN ComposedTeardown(Top.snap) ELSE held
  /\ cx' = IF Top.outer THEN [cx EXCEPT !.holds = TRUE] ELSE cx
  /\ UNCHANGED <<impl, state, ops, bus, plugins, autoInit, api, inits, initFn, initialized>>

\* The caller invokes the teardown function it holds (app.tsx:78-80).
Teardown ==
  /\ CanCall /\ Len(stack) = 0 /\ cx.holds
  /\ stack' = Append(stack, [BlankFrame EXCEPT !.kind = "teardown", !.i = 1, !.snap = held])
  /\ cx' = [cx EXCEPT !.tdCalls = @ + 1, !.tdDone = FALSE, !.log = <<>>]
  /\ ops' = ops + 1
  /\ UNCHANGED <<impl, state, bus, plugins, autoInit, api, inits, initFn, initialized, held>>

\* app.tsx:79, cleanups.forEach(cleanup => cleanup()): the next cleanup runs.
TeardownNext ==
  /\ Len(stack) > 0 /\ Top.kind = "teardown" /\ Top.i <= Len(Top.snap)
  /\ stack' = [stack EXCEPT ![Len(stack)].i = @ + 1]
  /\ cx' = [cx EXCEPT !.log = Append(@, Top.snap[Top.i])]
  /\ UNCHANGED <<impl, state, ops, bus, plugins, autoInit, api, inits, initFn, initialized, held>>

TeardownReturn ==
  /\ Len(stack) > 0 /\ Top.kind = "teardown" /\ Top.i > Len(Top.snap)
  /\ stack' = Pop(stack)
  /\ cx' = [cx EXCEPT !.tdDone = TRUE]
  /\ UNCHANGED <<impl, state, ops, bus, plugins, autoInit, api, inits, initFn, initialized, held>>

-----------------------------------------------------------------------------
\* The core api of createNodeFlow, nodeflow.ts:202-217.

\* The nodes and edges user code adds: two nodes share the id "a".
Nodes == {[id |-> "a", tag |-> 1], [id |-> "a", tag |-> 2], [id |-> "b", tag |-> 1]}
Edges == {[id |-> "e", tag |-> 1]}

\* context.setState, nodeflow.ts:155-157: this.state = {...this.state, ...partialState}
SetState(s, partialState) == ObjectAssign(s, partialState)

\* What addNode and addEdge write and fire.
KeyOf(m) == IF m = "addNode" THEN "nodes" ELSE "edges"
EventOf(m) == IF m = "addNode" THEN "node:added" ELSE "edge:added"
PayloadOf(m, obj) == IF m = "addNode" THEN [nodeId |-> obj.id] ELSE [edgeId |-> obj.id]

\* A mutant of CoreApiPlan: the event is fired before the state is set.
CoreApiPlanEmitsFirst == <<"emit", "set_state">>

\* The statements of addNode (nodeflow.ts:206-209) and addEdge (212-215).
CoreApiPlan == <<"set_state", "emit">>

\* instance.api[m](obj) is called, m being the core's method.
CoreApiCall(m, obj) ==
  /\ CanCall /\ impl = "lib" /\ m \in DOMAIN api /\ api[m] = Core
  /\ stack' = Append(stack, [BlankFrame EXCEPT !.kind = "api", !.todo = CoreApiPlan,
                                               !.type = m, !.data = obj])
  /\ ops' = ops + 1
  /\ last' = Called(m, "none", "none", "undefined")
  /\ UNCHANGED <<impl, state, changing, listeners, unsubs, offed, tx, book, skipped, life>>

\* instance.api.addNode(node)
AddNode(node) == CoreApiCall("addNode", node)

\* instance.api.addEdge(edge)
AddEdge(edge) == CoreApiCall("addEdge", edge)

\* nodeflow.ts:206-208 and 212-214
CoreSetState ==
  /\ At("api", "set_state")
  /\ state' = SetState(state,
                 [k \in {KeyOf(Top.type)} |->
                    ObjectAssign(state[KeyOf(Top.type)], [id \in {Top.data.id} |-> Top.data])])
  /\ stack' = Advance(stack)
  /\ UNCHANGED <<impl, ops, bus, life>>

\* nodeflow.ts:209 and 215
CoreEmit ==
  /\ At("api", "emit")
  /\ stack' = Append([Advance(stack) EXCEPT ![Len(stack)].i = @ + 1],
                     EmitFrame(EventOf(Top.type), PayloadOf(Top.type, Top.data)))
  /\ UNCHANGED <<impl, state, ops, bus, life>>

\* nodeflow.ts:210 and 216: the method returns.
CoreReturn ==
  /\ Len(stack) > 0 /\ Top.kind = "api" /\ Top.todo = <<>>
  /\ stack' = Pop(stack)
  /\ UNCHANGED <<impl, state, ops, bus, life>>

-----------------------------------------------------------------------------
\* Spec: an instance of either class, built from the one plugin "counter", in
\* the hands of user code: the caller, the callbacks given to change and the
\* listeners. User code fires plugin events itself and leaves beforeChange and
\* change to change().

Quiet ==
  /\ changing = FALSE
  /\ listeners = <<>>
  /\ unsubs = {}
  /\ last = Called("none", "none", "none", "undefined")
  /\ offed = {}
  /\ tx = NoTx
  /\ book = NoBook
  /\ skipped = {}
  /\ ops = 0

Init ==
  /\ impl \in {"app", "lib"}
  /\ plugins = <<"counter">>
  /\ autoInit = (impl = "app")
  /\ state = IF impl = "app" THEN AppMergedState(plugins, 1) ELSE LibInitialState(plugins)
  /\ api = IF impl = "app" THEN <<>> ELSE LibAssignApis(plugins, 1)
  /\ inits = IF impl = "app" THEN <<1>> ELSE <<>>
  /\ initFn = IF impl = "app" THEN "composed" ELSE "default"
  /\ initialized = (impl = "app")
  /\ held = <<>>
  /\ cx = [NewCx EXCEPT !.created = TRUE]
  /\ stack = <<>>
  /\ Quiet

\* The events of the instance's event map, by class.
AllEvents == IF impl = "app" THEN ChangeEvents \cup BusEvents ELSE BusEvents \cup CoreEvents

Next ==
  \/ Change
  \/ ChangeLock
  \/ ChangeEmitBefore
  \/ ChangeCallback
  \/ ChangeEmitChange
  \/ ChangeRelease
  \/ ChangeReturn
  \/ \E t \in AllEvents, h \in Handlers : On(t, h)
  \/ \E t \in AllEvents, h \in Handlers : Off(t, h)
  \/ \E t \in AllEvents, h \in Handlers : Unsubscribe(t, h)
  \/ \E t \in BusEvents : Emit(t)
  \/ \E node \in Nodes : AddNode(node)
  \/ \E edge \in Edges : AddEdge(edge)
  \/ CoreSetState
  \/ CoreEmit
  \/ CoreReturn
  \/ EmitNext
  \/ EmitReturn
  \/ Mutate
  \/ FnReturn
  \/ FnThrow

Spec == Init /\ [][Next]_vars

\* SpecCreate: create (app.tsx) or createNodeFlow (nodeflow.ts) is called with
\* a plugin list, and the caller then drives the instance's lifecycle. Init
\* thunks and cleanups return normally; a thunk may call instance.init() itself.

InitCreate ==
  /\ impl \in {"app", "lib"}
  /\ plugins \in PluginLists
  /\ autoInit \in (IF impl = "app" THEN BOOLEAN ELSE {FALSE})
  /\ state = <<>>
  /\ api = <<>>
  /\ inits = <<>>
  /\ initFn = "default"
  /\ initialized = FALSE
  /\ held = <<>>
  /\ cx = NewCx
  /\ stack = IF impl = "app"
             THEN <<[BlankFrame EXCEPT !.kind = "create", !.todo = CreatePlan, !.i = 1]>>
             ELSE <<[BlankFrame EXCEPT !.kind = "createNodeFlow", !.todo = <<"build">>]>>
  /\ Quiet

NextCreate ==
  \/ CreatePlugin
  \/ CreateComposed
  \/ CreateInstall
  \/ CreateAutoInit
  \/ CreateReturn
  \/ LibCreate
  \/ InitCall
  \/ InitSetFlag
  \/ InitRun
  \/ InitReturn
  \/ DirectInit
  \/ ComposedNext
  \/ ComposedReturn
  \/ Teardown
  \/ TeardownNext
  \/ TeardownReturn
  \/ FnReturn

SpecCreate == InitCreate /\ [][NextCreate]_vars

-----------------------------------------------------------------------------
\* Properties.

SetMax(S) == CHOOSE m \in S : \A n \in S : n <= m
StateGivers(key) == {k \in 1..Len(plugins) : key \in DOMAIN StateOf(plugins, k)}
ApiGivers(m) == {k \in 1..Len(plugins) : m \in Pool[plugins[k]].api}

\* C1: between the call of an outermost change() and its return exactly one
\* beforeChange and exactly one change event are emitted, however many
\* change() calls are nested in it; a nested change() runs its callback once
\* and emits nothing.
C1_OneEventPairPerOutermostChange ==
  /\ tx.active => tx.nb <= 1 /\ tx.nc <= 1
  /\ tx.returned => tx.nb = 1 /\ tx.nc = 1
  /\ \A f \in Frames :
       f.kind = "change" /\ ~f.outer =>
         /\ \A k \in 1..Len(f.todo) : f.todo[k] \notin {"emit_before", "emit_change"}
         /\ f.i <= 1
         /\ f.todo = <<>> => f.i = 1

\* An outermost change() has returned after change() calls nested two deep.
C1_Witness == tx.returned /\ tx.deep >= 2 /\ tx.nb = 1 /\ tx.nc = 1

\* C2: in one outermost change(), the beforeChange listeners are all done
\* before the callback starts, the callback and the change() calls nested in
\* it are done before a change listener is called, and the change event is
\* emitted before change() returns.
C2_BeforeThenCallbackThenChange ==
  /\ \A k \in 1..Len(stack) :
       LET f == stack[k] IN
       /\ (f.kind \in {"emit", "fn"} /\ f.type = "beforeChange") => ~tx.cbStarted /\ tx.nc = 0
       /\ (f.kind \in {"emit", "fn"} /\ f.type = "change") =>
            /\ tx.cbDone /\ ~tx.returned
            /\ \A j \in 1..(k - 1) : ~(stack[j].kind = "fn" /\ stack[j].role = "callback")
       /\ (f.kind = "fn" /\ f.role = "callback" /\ f.outer) => tx.nb = 1 /\ tx.nc = 0
  /\ tx.returned => tx.cbDone /\ tx.nc = 1

\* A change listener runs after a beforeChange listener has run and a nested
\* change() has run inside the callback.
C2_Witness ==
  /\ \E f \in Frames : IsListener(f, "change")
  /\ tx.lb >= 1 /\ tx.nn >= 1 /\ tx.cbDone

\* C3, as claimed: beforeChange listeners are handed the state as it is
\* immediately before the callback runs, change listeners the state as it is
\* immediately after the callback returns.
C3_PayloadIsStateAroundCallback ==
  /\ tx.cbStarted => tx.bp = tx.s0
  /\ tx.nc >= 1 /\ tx.cbDone => tx.cp = tx.s1
  /\ \A f \in Frames : IsListener(f, "beforeChange") => f.data = tx.bp
  /\ \A f \in Frames : IsListener(f, "change") => f.data = tx.cp

\* C3, amended: beforeChange listeners are handed the state as it was when
\* change() was called, which is the state immediately before the callback
\* runs unless a beforeChange listener replaced it; change listeners are handed
\* the state as it is immediately after the callback returns.
C3_PayloadIsStateWhenFired ==
  /\ \A f \in Frames : IsListener(f, "beforeChange") => f.data = tx.entry
  /\ \A f \in Frames : IsListener(f, "change") => tx.cbDone /\ f.data = tx.s1
  /\ tx.cbStarted /\ ~tx.preReplaced => tx.s0 = tx.entry

\* The callback has replaced the state, a beforeChange listener saw the old
\* object and a change listener is being handed the new one.
C3_Witness ==
  /\ tx.lb >= 1 /\ ~tx.preReplaced
  /\ \E f \in Frames : IsListener(f, "change") /\ f.data # tx.entry /\ f.data = state

\* C4: over any sequence of init() calls every plugin's init thunk is invoked
\* exactly once, by the first call; a later init() runs nothing.
C4_InitIdempotent ==
  /\ cx.directCalls = 0 =>
       \A k \in 1..Len(plugins) :
         /\ cx.runs[k] <= 1
         /\ cx.firstInitDone => cx.runs[k] = 1
  /\ \A f \in Frames : f.kind = "init" /\ ~f.outer => f.todo = <<>> /\ initialized

\* init() was called again after the call create made, with two plugins or more.
C4_Witness ==
  /\ autoInit /\ cx.created /\ cx.initCalls >= 3 /\ cx.directCalls = 0 /\ Len(stack) = 0
  /\ Len(plugins) >= 2 /\ \A k \in 1..Len(plugins) : cx.runs[k] = 1

\* C5: the teardown returned by the composed init runs every plugin's cleanup
\* exactly once, in the reverse of the order of the plugin list.
C5_TeardownInReverseOrder ==
  /\ cx.tdDone => Len(cx.log) = Len(plugins)
  /\ \A j \in 1..Len(cx.log) : cx.log[j] = Len(plugins) + 1 - j

\* The teardown of three plugins has run.
C5_Witness == cx.tdDone /\ Len(plugins) = 3 /\ cx.log = <<3, 2, 1>>

\* C6: the state of the instance built is the shallow merge of the plugins'
\* state fragments in list order: a key holds the value of the last plugin that
\* gives it, and a key no plugin gives is absent (createNodeFlow: holds the
\* core's value).
C6_StateIsMergeInListOrder ==
  cx.created =>
    \A key \in StateKeys :
      IF StateGivers(key) # {}
      THEN key \in DOMAIN state /\ state[key] = StateOf(plugins, SetMax(StateGivers(key)))[key]
      ELSE IF impl = "lib" /\ key \in DOMAIN CoreState
           THEN key \in DOMAIN state /\ state[key] = CoreState[key]
           ELSE key \notin DOMAIN state

\* The plugins {x: 1} then {x: 2, y: 3} were composed by create.
C6_Witness ==
  /\ cx.created /\ impl = "app" /\ plugins = <<"first", "second">>
  /\ DOMAIN state = {"x", "y"} /\ state["x"] = 2 /\ state["y"] = 3

\* C7: an api method several plugins give is the last giver's (in
\* createNodeFlow a plugin's addNode or addEdge replaces the core's), and the
\* collision raises no error.
C7_ApiLastPluginWins ==
  /\ cx.created =>
       \A m \in ApiNames :
         IF ApiGivers(m) # {}
         THEN m \in DOMAIN api /\ api[m] = SetMax(ApiGivers(m))
         ELSE IF impl = "lib" /\ m \in DOMAIN CoreApi
              THEN m \in DOMAIN api /\ api[m] = Core
              ELSE m \notin DOMAIN api
  /\ cx.threw => \E k \in 1..Len(plugins) : Throws(plugins, k)
  /\ Len(stack) = 0 => cx.created \/ cx.threw

\* createNodeFlow was given a plugin with addEdge and two with addNode.
C7_Witness ==
  /\ cx.created /\ impl = "lib" /\ plugins = <<"first", "graph", "second">>
  /\ api["addNode"] = 3 /\ api["addEdge"] = 2

\* No listener is called by an emit that started after it was removed by off
\* and not registered again (the frame's banned set).
NotCalledAfterOff ==
  \A k \in 1..(Len(stack) - 1) :
    stack[k].kind = "emit" /\ stack[k + 1].kind = "fn" /\ stack[k + 1].role = "listener"
      => stack[k + 1].handler \notin stack[k].banned

\* A step that is a call of off.
OffStep == ops' = ops + 1 /\ last'.op = "off"

\* off of a pair that is not registered changes neither the registry nor the
\* running calls (it does not throw).
OffUnregisteredIsNoOp ==
  OffStep /\ ~Registered(listeners, last'.type, last'.handler)
    => listeners' = listeners /\ stack' = stack

\* C8: an emit that starts after off(event, l), with no on(event, l) since,
\* does not call l; off of a listener or event that is not registered leaves
\* the registry as it was and does not throw.
C8_OffRemovesListener == []NotCalledAfterOff /\ [][OffUnregisteredIsNoOp]_vars

\* on, off and emit of the same event have been called in turn on the app.tsx
\* instance, the emit has returned, and another listener was called by it.
C8_Witness ==
  /\ last.op = "emit" /\ Len(stack) = 0 /\ impl = "app"
  /\ <<last.type, "h1">> \in offed /\ <<last.type, "h1">> \in unsubs
  /\ Registered(listeners, last.type, "h2")

UnsubStep == ops' = ops + 1 /\ last'.op = "unsub"

\* What on returns, by class.
OnResult ==
  /\ impl = "app" /\ last.op = "on" => last.ret = "unsubscribe" /\ <<last.type, last.handler>> \in unsubs
  /\ impl = "lib" => unsubs = {} /\ (last.op = "on" => last.ret = "undefined")

\* Invoking the callback does to the registry, and to the emits running, what
\* off of the same pair does; it removes the listener, and nothing else when
\* the listener is not registered.
UnsubscribeActsAsOff ==
  UnsubStep =>
    /\ listeners' = AppOff(listeners, last'.type, last'.handler)
    /\ stack' = MarkGone(AppOffIter(stack, listeners, last'.type, last'.handler),
                          listeners, last'.type, last'.handler)
    /\ ~Registered(listeners', last'.type, last'.handler)
    /\ ~Registered(listeners, last'.type, last'.handler) => listeners' = listeners

C10_FlagReleasedAfterThrow == tx.threw /\ Len(stack) = 0 => ~changing

\* C11: in one emit call every listener registered for the event is called
\* exactly once, and a listener removed while the emit is iterating (and not
\* registered again) is not called after its removal, also when listeners call
\* on and off for the event from inside their invocation.
C11_EachListenerOncePerEmit ==
  \A k \in 1..Len(stack) :
    LET f == stack[k] IN
    f.kind = "emit" =>
      /\ \A j \in 1..Len(f.seen) : ~f.seen[j].removed
      /\ \A i, j \in 1..Len(f.seen) : i # j => f.seen[i].handler # f.seen[j].handler
      /\ (k = Len(stack) /\ ~Pending(f)) =>
            \A h \in f.first \ f.gone : \E j \in 1..Len(f.seen) : f.seen[j].handler = h

\* C12: when a listener throws during an emit, the listeners of the event that
\* the emit has not called yet are still called: no exception leaves an emit
\* with listeners uncalled.
C12_ThrowDoesNotStopEmit == skipped = {}

\* C13: create with autoInit true (or left out) returns an initialized instance
\* whose init thunks have each run once before create returned; create with
\* autoInit false returns an uninitialized instance on which no thunk has run,
\* and the thunks run, once each, when the caller calls init().
C13_AutoInitDecidesWhenThunksRun ==
  impl = "app" /\ cx.directCalls = 0 =>
    /\ cx.created /\ autoInit =>
          initialized /\ \A k \in 1..Len(plugins) : cx.runs[k] = 1
    /\ ~autoInit /\ cx.initCalls = 0 =>
          ~initialized /\ \A k \in 1..Len(plugins) : cx.runs[k] = 0
    /\ ~autoInit /\ cx.firstInitDone =>
          cx.created /\ initialized /\ \A k \in 1..Len(plugins) : cx.runs[k] = 1

\* create(plugins, {autoInit: false}) has returned and the caller has called
\* init() since: its two or more thunks have run.
C13_Witness ==
  /\ impl = "app" /\ ~autoInit /\ cx.created /\ cx.initCalls = 1 /\ cx.firstInitDone
  /\ cx.directCalls = 0 /\ Len(plugins) >= 2 /\ \A k \in 1..Len(plugins) : cx.runs[k] = 1

\* C14: each off(event, l) removes one registration of l: while the on calls
\* of a pair outnumber its off calls the listener is still registered (and so
\* called by emit), and it is not once every on has been matched by an off.
C14_OffRemovesOneRegistration ==
  \A p \in DOMAIN book :
    book[p].owed > 0 <=> Registered(listeners, p[1], p[2])

\* C15: in every reachable state the registry holds no event whose collection
\* of listeners is empty: off of the last listener of an event removes the
\* event's key.
C15_NoEmptyListenerCollection == \A t \in DOMAIN listeners : Len(listeners[t]) > 0

\* C16: an emit calls the listeners of its event in the order in which on
\* registered them (a listener called before another was registered before
\* it), each call made from inside the emit, before it returns.
C16_ListenersCalledInRegistrationOrder ==
  \A k \in 1..Len(stack) :
    LET f == stack[k]
        FirstCall(j) == \A i \in 1..(j - 1) : f.seen[i].handler # f.seen[j].handler
    IN /\ f.kind = "emit" =>
            \A i, j \in 1..Len(f.seen) :
              i < j /\ FirstCall(i) /\ FirstCall(j) /\ f.seen[i].handler # f.seen[j].handler
                => 0 < f.seen[i].born /\ f.seen[i].born < f.seen[j].born
       /\ (f.kind = "fn" /\ f.role = "listener") =>
            /\ k > 1 /\ stack[k - 1].kind = "emit" /\ stack[k - 1].type = f.type
            /\ stack[k - 1].seen[Len(stack[k - 1].seen)].handler = f.handler

\* h2 was registered before h1 and an emit has called h2, then h1.
C16_Witness ==
  \E f \in Frames :
    /\ f.kind = "emit" /\ Len(f.seen) = 2
    /\ f.seen[1].handler = "h2" /\ f.seen[2].handler = "h1"
    /\ f.seen[1].born < f.seen[2].born

\* C17: when an init thunk runs, every descriptor of the list has been invoked
\* and its state and api fragments merged in list order, so the thunk sees the
\* fully merged state and api; init runs the thunks in the order of the list.
C17_ComposedBeforeInitInListOrder ==
  impl = "app" =>
    /\ ((\E f \in Frames : f.role = "thunk") \/ (\E k \in 1..Len(plugins) : cx.runs[k] > 0)) =>
          /\ cx.invoked = Len(plugins) /\ ~cx.threw
          /\ state = AppMergedState(plugins, Len(plugins))
          /\ api = AppMergedApi(plugins, Len(plugins))
          /\ inits = [k \in 1..Len(plugins) |-> k]
    /\ \A k \in 1..(Len(plugins) - 1) : cx.runs[k] >= cx.runs[k + 1]
    /\ \A k \in 1..Len(stack) :
          (stack[k].kind = "fn" /\ stack[k].role = "thunk") =>
            /\ k > 1 /\ stack[k - 1].kind = "composed"
            /\ stack[k - 1].snap[stack[k - 1].i - 1] = stack[k - 1].i - 1
            /\ cx.runs[stack[k - 1].i - 1] >= 1

\* The second of three thunks is running in the init() that create calls; the
\* first two plugins both give the state key x and the api method addNode.
C17_Witness ==
  /\ impl = "app" /\ ~cx.created /\ plugins = <<"first", "second", "graph">>
  /\ Len(stack) > 0 /\ Top.role = "thunk"
  /\ cx.runs[1] = 1 /\ cx.runs[2] = 1 /\ cx.runs[3] = 0
  /\ state["x"] = 2 /\ api["addNode"] = 2 /\ api["addEdge"] = 3

\* C18, as claimed: a change() called from inside a beforeChange or change
\* listener emits nothing of its own, and every replacement of the state it
\* makes is in the payload of the transaction's one change event.
C18_NestedMutationsReachChangePayload ==
  /\ \A f \in Frames :
       f.kind = "change" /\ ~f.outer =>
         \A k \in 1..Len(f.todo) : f.todo[k] \notin {"emit_before", "emit_change"}
  /\ tx.returned => tx.cp = state

\* C18, amended: a change() called from inside a beforeChange or change
\* listener emits nothing of its own; what it does to the state from a
\* beforeChange listener is in the payload of the transaction's change event,
\* what it does from a change listener comes after the payload was taken, is
\* not in it, and no change event follows it.
C18_NestedChangeCoalesced ==
  /\ \A f \in Frames :
       f.kind = "change" /\ ~f.outer =>
         \A k \in 1..Len(f.todo) : f.todo[k] \notin {"emit_before", "emit_change"}
  /\ tx.active /\ tx.nc = 0 => tx.mc = 0
  /\ tx.returned =>
       /\ tx.nb = 1 /\ tx.nc = 1
       /\ tx.mc = 0 => tx.cp = state
       /\ tx.mc > 0 => tx.cp # state
  /\ \A f \in Frames : IsListener(f, "change") => f.data = tx.cp

\* A transaction has returned in which a beforeChange listener called change()
\* and replaced the state: the change payload is the state it left.
C18_Witness ==
  /\ tx.returned /\ tx.mb >= 1 /\ tx.mc = 0 /\ tx.nn >= 1
  /\ tx.cp = state /\ tx.cp # tx.entry

\* The first plugin of the list whose descriptor throws, 0 when none does.
FirstThrower ==
  IF \E k \in 1..Len(plugins) : Pool[plugins[k]].throws
  THEN CHOOSE k \in 1..Len(plugins) :
         Pool[plugins[k]].throws /\ \A j \in 1..(k - 1) : ~Pool[plugins[j]].throws
  ELSE 0

\* C19: when the descriptor of the k-th plugin throws, create ends there and
\* returns no instance: no later descriptor and no init thunk is invoked, and
\* the state and api merged from the plugins before k stay as they were.
C19_DescriptorThrowAbortsCreate ==
  impl = "app" =>
    /\ cx.threw <=> (FirstThrower > 0 /\ cx.invoked >= FirstThrower)
    /\ FirstThrower > 0 => ~cx.created /\ cx.invoked <= FirstThrower
    /\ cx.threw =>
         /\ Len(stack) = 0 /\ ~cx.created /\ ~initialized /\ initFn = "default"
         /\ cx.initCalls = 0 /\ \A k \in 1..Len(plugins) : cx.runs[k] = 0
         /\ \A key \in StateKeys :
              LET before == {k \in StateGivers(key) : k < FirstThrower}
              IN IF before # {}
                 THEN key \in DOMAIN state /\ state[key] = Pool[plugins[SetMax(before)]].state[key]
                 ELSE key \notin DOMAIN state
         /\ \A m \in ApiNames :
              LET before == {k \in ApiGivers(m) : k < FirstThrower}
              IN IF before # {} THEN m \in DOMAIN api /\ api[m] = SetMax(before)
                 ELSE m \notin DOMAIN api

\* The second descriptor of three has thrown: the first plugin's fragments
\* are in place and the third descriptor was never invoked.
C19_Witness ==
  /\ impl = "app" /\ cx.threw /\ plugins = <<"second", "boom", "graph">>
  /\ cx.invoked = 2 /\ state = [x |-> 2, y |-> 3] /\ "addEdge" \notin DOMAIN api

\* A step that is the setState of a running addNode or addEdge.
CoreSetStateStep == At("api", "set_state") /\ stack' # stack

\* setState puts the object under its id and leaves every other entry of the
\* collection and every other key of the state as they were.
SetStateFrame ==
  CoreSetStateStep =>
    LET key == KeyOf(Top.type)
        obj == Top.data
    IN /\ DOMAIN state' = DOMAIN state
       /\ \A k \in DOMAIN state \ {key} : state'[k] = state[k]
       /\ DOMAIN state'[key] = DOMAIN state[key] \cup {obj.id}
       /\ state'[key][obj.id] = obj
       /\ \A id \in DOMAIN state[key] \ {obj.id} : state'[key][id] = state[key][id]

\* One event per call, fired after the state is set, with the object's id, and
\* every listener of the event runs with the object in the state.
AddedEventAfterState ==
  \A k \in 1..Len(stack) :
    LET f == stack[k] IN
    /\ f.kind = "api" => f.i <= 1 /\ (f.todo = <<>> => f.i = 1)
    /\ (f.kind = "emit" /\ f.type \in CoreEvents) =>
         /\ k > 1 /\ stack[k - 1].kind = "api"
         /\ f.type = EventOf(stack[k - 1].type)
         /\ f.data = PayloadOf(stack[k - 1].type, stack[k - 1].data)
    /\ IsListener(f, "node:added") =>
         f.data.nodeId \in DOMAIN state.nodes /\ state.nodes[f.data.nodeId].id = f.data.nodeId
    /\ IsListener(f, "edge:added") =>
         f.data.edgeId \in DOMAIN state.edges /\ state.edges[f.data.edgeId].id = f.data.edgeId

\* C20: on an instance of createNodeFlow, addNode(n) replaces the state by one
\* in which nodes[n.id] = n and nothing else differs, then fires node:added
\* once with nodeId = n.id, so that every node:added listener runs with the
\* node in the state; addEdge does the same with edges and edge:added.
C20_AddNodeSetsStateThenEmits == []AddedEventAfterState /\ [][SetStateFrame]_vars

\* A node:added listener runs for node b while node a, added before, and the
\* rest of the state are as they were.
C20_Witness ==
  /\ impl = "lib" /\ Len(stack) > 0 /\ IsListener(Top, "node:added") /\ Top.data.nodeId = "b"
  /\ DOMAIN state.nodes = {"a", "b"} /\ state.nodes["a"].tag = 2
  /\ state.count = 0 /\ DOMAIN state.edges = {}

====
